---- MODULE Spec2Model ----
(***************************************************************************)
(* Condorcet election engine of app/condorcet.py (CondorcetVotingSystem). *)
(* Candidates are integer ids, a ballot (ranking) is a sequence of ids,   *)
(* most preferred first.  The engine is a set of pure functions; they are *)
(* translated below as operators that compute the way the Python code     *)
(* computes (same scan orders, same guards), and the specifications apply *)
(* them to every input of a bounded domain.                               *)
(***************************************************************************)
EXTENDS Integers, Sequences, FiniteSets

VARIABLES candidates, rankings, tie_breaking_method, pairwise_input, result

vars == <<candidates, rankings, tie_breaking_method, pairwise_input, result>>

(***************************************************************************)
(* Bounds of the model.                                                    *)
(***************************************************************************)
\* largest number of ballots of an election, and largest entry of a
\* pairwise matrix handed directly to the resolver
MaxBallots == 3

\* the candidate ids elections are held over; 0 is an id like any other
CandidateIds == {0, 1, 2}

(***************************************************************************)
(* Python values.                                                          *)
(***************************************************************************)
\* Optional[int] winner: None (ids are never negative)
None == -1

\* the three strategies of compute_full_ranking
Strategies == {"margin", "copeland", "borda"}

Range(s) == {s[k] : k \in DOMAIN s}

\* sequences over S without a repeated element, of length at most n
RECURSIVE DupFreeSeqs(_, _)
DupFreeSeqs(S, n) ==
    IF n = 0 THEN {<<>>}
    ELSE LET shorter == DupFreeSeqs(S, n - 1)
             longer == {Append(s, x) : s \in shorter, x \in S}
         IN shorter \cup {t \in longer : Cardinality(Range(t)) = Len(t)}

\* candidate lists the caller supplies: ordered, without duplicates
CandidateLists == DupFreeSeqs(CandidateIds, Cardinality(CandidateIds))

\* ballots that pass validation for a candidate list: partial allowed
ValidBallots(cands) == DupFreeSeqs(Range(cands), Len(cands))

\* a number that identifies a ballot: the ids as digits 1.. of a numeral
RECURSIVE BallotCode(_)
BallotCode(ballot) ==
    IF ballot = <<>> THEN 0
    ELSE Head(ballot) + 1 + (Cardinality(CandidateIds) + 1) * BallotCode(Tail(ballot))

\* dict.get(key, 0) on a row of the matrix
Get(matrix, a, b) == IF b \in DOMAIN matrix[a] THEN matrix[a][b] ELSE 0

(***************************************************************************)
(* validate_rankings                                                       *)
(***************************************************************************)
\* faulty variant of InvalidBallot: without the test for duplicates
InvalidBallot_undeclared_only(ranking, cands) ==
    \E k \in DOMAIN ranking : ranking[k] \notin Range(cands)

\* the ballot at index i breaks a rule: an undeclared id or a duplicate
InvalidBallot(ranking, cands) ==
    \/ \E k \in DOMAIN ranking : ranking[k] \notin Range(cands)
    \/ Len(ranking) # Cardinality(Range(ranking))

\* the first id of the ballot that is not declared, None when all are
RECURSIVE first_undeclared(_, _, _)
first_undeclared(ranking, cands, k) ==
    IF k > Len(ranking) THEN None
    ELSE IF ranking[k] \notin Range(cands) THEN ranking[k]
         ELSE first_undeclared(ranking, cands, k + 1)

\* [x for x in ranking if ranking.count(x) > 1]
duplicates(ranking) ==
    SelectSeq(ranking,
              LAMBDA x : Cardinality({k \in DOMAIN ranking : ranking[k] = x}) > 1)

\* faulty variant of violation: the ballot is numbered from 1
violation_one_based(i, ranking, cands) ==
    IF first_undeclared(ranking, cands, 1) # None
    THEN [kind |-> "undeclared", vote |-> i + 1,
          candidate |-> first_undeclared(ranking, cands, 1)]
    ELSE [kind |-> "duplicate", vote |-> i + 1, duplicates |-> duplicates(ranking)]

\* what the VoteValidationError raised for ballot i (0-based, as enumerate
\* counts) reports: the undeclared id is looked for before the duplicates
violation(i, ranking, cands) ==
    IF first_undeclared(ranking, cands, 1) # None
    THEN [kind |-> "undeclared", vote |-> i,
          candidate |-> first_undeclared(ranking, cands, 1)]
    ELSE [kind |-> "duplicate", vote |-> i, duplicates |-> duplicates(ranking)]

NoViolation == [kind |-> "none"]

\* for i, ranking in enumerate(rankings): the first raise ends the scan
RECURSIVE ScanBallots(_, _, _)
ScanBallots(rks, cands, r) ==
    IF r > Len(rks) THEN NoViolation
    ELSE IF InvalidBallot(rks[r], cands) THEN violation(r - 1, rks[r], cands)
         ELSE ScanBallots(rks, cands, r + 1)

\* True when the scan raises nothing
validate_rankings(rks, cands) == ScanBallots(rks, cands, 1).kind = "none"

(***************************************************************************)
(* compute_pairwise_matrix                                                 *)
(***************************************************************************)
ZeroMatrix(cands) ==
    [a \in Range(cands) |-> [b \in Range(cands) \ {a} |-> 0]]

\* faulty variant of count_pair: the pair is counted for the wrong side
count_pair_swapped(matrix, candidate_a, candidate_b) ==
    IF candidate_b \in DOMAIN matrix /\ candidate_a \in DOMAIN matrix[candidate_b]
    THEN [matrix EXCEPT ![candidate_b][candidate_a] = @ + 1]
    ELSE matrix

\* faulty variant of count_pair: the pair is counted for both sides
count_pair_both(matrix, candidate_a, candidate_b) ==
    IF candidate_a \in DOMAIN matrix /\ candidate_b \in DOMAIN matrix[candidate_a]
    THEN [matrix EXCEPT ![candidate_a][candidate_b] = @ + 1,
                        ![candidate_b][candidate_a] = @ + 1]
    ELSE matrix

\* candidate_a is preferred to candidate_b: matrix[candidate_a][candidate_b] += 1
count_pair(matrix, candidate_a, candidate_b) ==
    IF candidate_a \in DOMAIN matrix /\ candidate_b \in DOMAIN matrix[candidate_a]
    THEN [matrix EXCEPT ![candidate_a][candidate_b] = @ + 1]
    ELSE matrix

\* inner loop: for candidate_b in ranking[i + 1:]
RECURSIVE TallyLater(_, _, _, _, _)
TallyLater(matrix, ranking, cands, i, j) ==
    IF j > Len(ranking) THEN matrix
    ELSE LET next == IF ranking[j] \notin Range(cands) THEN matrix
                     ELSE count_pair(matrix, ranking[i], ranking[j])
         IN TallyLater(next, ranking, cands, i, j + 1)

\* outer loop: for i, candidate_a in enumerate(ranking)
RECURSIVE TallyRanking(_, _, _, _)
TallyRanking(matrix, ranking, cands, i) ==
    IF i > Len(ranking) THEN matrix
    ELSE IF ranking[i] \notin Range(cands)
         THEN TallyRanking(matrix, ranking, cands, i + 1)
         ELSE TallyRanking(TallyLater(matrix, ranking, cands, i, i + 1),
                           ranking, cands, i + 1)

\* for ranking in rankings
RECURSIVE TallyRankings(_, _, _, _)
TallyRankings(matrix, rks, cands, r) ==
    IF r > Len(rks) THEN matrix
    ELSE TallyRankings(TallyRanking(matrix, rks[r], cands, 1), rks, cands, r + 1)

\* faulty variant of compute_pairwise_matrix: a ballot that names a candidate
\* outside the list is left out as a whole
compute_pairwise_matrix_whole_ballots(rks, cands) ==
    TallyRankings(ZeroMatrix(cands),
                  SelectSeq(rks, LAMBDA ranking : Range(ranking) \subseteq Range(cands)),
                  cands, 1)

\* faulty variant of compute_pairwise_matrix: the tally goes on from the
\* matrix of the last result for the same candidate list instead of from zero
compute_pairwise_matrix_incremental(rks, cands) ==
    TallyRankings(IF result.status = "returned" /\ result.candidates = cands
                  THEN result.pairwise_matrix
                  ELSE ZeroMatrix(cands),
                  rks, cands, 1)

compute_pairwise_matrix(rks, cands) ==
    TallyRankings(ZeroMatrix(cands), rks, cands, 1)

(***************************************************************************)
(* find_condorcet_winner                                                   *)
(***************************************************************************)
\* faulty variant of is_condorcet_winner: "<" for "<=", a tie no longer
\* disqualifies
is_condorcet_winner_ties(matrix, cands, candidate) ==
    \A k \in DOMAIN cands :
        LET opponent == cands[k]
        IN candidate = opponent
           \/ ~(Get(matrix, candidate, opponent) < Get(matrix, opponent, candidate))

\* faulty variant of is_condorcet_winner: the flag is overwritten for every
\* opponent, so the last opponent alone decides
is_condorcet_winner_last(matrix, cands, candidate) ==
    LET others == {k \in DOMAIN cands : cands[k] # candidate}
        last == CHOOSE k \in others : \A h \in others : h <= k
    IN others = {}
       \/ Get(matrix, candidate, cands[last]) > Get(matrix, cands[last], candidate)

\* the inner loop leaves is_condorcet_winner true
is_condorcet_winner(matrix, cands, candidate) ==
    \A k \in DOMAIN cands :
        LET opponent == cands[k]
        IN candidate = opponent
           \/ ~(Get(matrix, candidate, opponent) <= Get(matrix, opponent, candidate))

RECURSIVE ScanForWinner(_, _, _)
ScanForWinner(matrix, cands, k) ==
    IF k > Len(cands) THEN None
    ELSE IF is_condorcet_winner(matrix, cands, cands[k]) THEN cands[k]
         ELSE ScanForWinner(matrix, cands, k + 1)

\* faulty variant of find_condorcet_winner: 0 stands for "no winner"
find_condorcet_winner_zero(matrix, cands) ==
    IF ScanForWinner(matrix, cands, 1) = None THEN 0
    ELSE ScanForWinner(matrix, cands, 1)

\* faulty variant of find_condorcet_winner: when nobody qualifies the first
\* listed candidate is returned
find_condorcet_winner_first(matrix, cands) ==
    IF ScanForWinner(matrix, cands, 1) = None /\ cands # <<>> THEN cands[1]
    ELSE ScanForWinner(matrix, cands, 1)

find_condorcet_winner(matrix, cands) == ScanForWinner(matrix, cands, 1)

(***************************************************************************)
(* compute_smith_set                                                       *)
(***************************************************************************)
\* faulty variant of beats: ">=" for ">", a tie counts as a win
beats_or_ties(matrix, a, b) == Get(matrix, a, b) >= Get(matrix, b, a)

beats(matrix, a, b) == Get(matrix, a, b) > Get(matrix, b, a)

beats_all_outside(matrix, subset, remaining) ==
    \A inside \in subset : \A outside \in remaining : beats(matrix, inside, outside)

\* faulty variant of to_remove: without the test that remaining is not empty
to_remove_unguarded(matrix, current_set) ==
    {candidate \in current_set :
        beats_all_outside(matrix, current_set \ {candidate}, {candidate})}

\* faulty variant of to_remove: the candidates that at least one member of
\* the set beats
to_remove_beaten_by_one(matrix, current_set) ==
    {candidate \in current_set :
        \E other \in current_set \ {candidate} : beats(matrix, other, candidate)}

\* one pass of the while loop: the candidates the rest of the set beats
to_remove(matrix, current_set) ==
    {candidate \in current_set :
        LET remaining == current_set \ {candidate}
        IN remaining # {} /\ beats_all_outside(matrix, remaining, {candidate})}

RECURSIVE SmithLoop(_, _)
SmithLoop(matrix, current_set) ==
    IF to_remove(matrix, current_set) = {} THEN current_set
    ELSE SmithLoop(matrix, current_set \ to_remove(matrix, current_set))

\* the returned list is read as a set: its order is the set's iteration order
compute_smith_set(matrix, cands) == SmithLoop(matrix, Range(cands))

(***************************************************************************)
(* compute_margin_matrix                                                   *)
(***************************************************************************)
\* faulty variant of compute_margin_matrix: the two counts are subtracted
\* the wrong way round
compute_margin_matrix_swapped(matrix, cands) ==
    [a \in Range(cands) |->
        [b \in Range(cands) \ {a} |-> Get(matrix, b, a) - Get(matrix, a, b)]]

compute_margin_matrix(matrix, cands) ==
    [a \in Range(cands) |->
        [b \in Range(cands) \ {a} |-> Get(matrix, a, b) - Get(matrix, b, a)]]

(***************************************************************************)
(* sorted(candidates, key=lambda c: scores[c], reverse=True)               *)
(***************************************************************************)
\* faulty variant of InsertByScore: an element whose score is already
\* present is dropped, as by a ranking keyed by score
RECURSIVE InsertByScoreKeyed(_, _, _)
InsertByScoreKeyed(ranked, c, scores) ==
    IF ranked = <<>> THEN <<c>>
    ELSE IF scores[Head(ranked)] < scores[c] THEN <<c>> \o ranked
         ELSE IF scores[Head(ranked)] = scores[c] THEN ranked
              ELSE <<Head(ranked)>> \o InsertByScoreKeyed(Tail(ranked), c, scores)

\* faulty variant of InsertByScore: c is put before the elements of equal
\* score, as by sorting ascending and reversing
RECURSIVE InsertByScore_before_equals(_, _, _)
InsertByScore_before_equals(ranked, c, scores) ==
    IF ranked = <<>> THEN <<c>>
    ELSE IF scores[Head(ranked)] <= scores[c] THEN <<c>> \o ranked
         ELSE <<Head(ranked)>> \o InsertByScore_before_equals(Tail(ranked), c, scores)

\* the list with c put behind every element whose score is not smaller:
\* sorted() is stable, also with reverse=True
RECURSIVE InsertByScore(_, _, _)
InsertByScore(ranked, c, scores) ==
    IF ranked = <<>> THEN <<c>>
    ELSE IF scores[Head(ranked)] < scores[c] THEN <<c>> \o ranked
         ELSE <<Head(ranked)>> \o InsertByScore(Tail(ranked), c, scores)

RECURSIVE SortFrom(_, _, _, _)
SortFrom(ranked, cands, scores, k) ==
    IF k > Len(cands) THEN ranked
    ELSE SortFrom(InsertByScore(ranked, cands[k], scores), cands, scores, k + 1)

sorted_reverse(cands, scores) == SortFrom(<<>>, cands, scores, 1)

(***************************************************************************)
(* resolve_ties_by_margin                                                  *)
(***************************************************************************)
\* for opponent in candidates: if margin < worst_margin: worst_margin = margin
RECURSIVE worst_margin(_, _, _, _, _)
worst_margin(margin_matrix, cands, candidate, k, worst) ==
    IF k > Len(cands) THEN worst
    ELSE LET opponent == cands[k]
             next == IF candidate # opponent
                        /\ margin_matrix[candidate][opponent] < worst
                     THEN margin_matrix[candidate][opponent]
                     ELSE worst
         IN worst_margin(margin_matrix, cands, candidate, k + 1, next)

margin_scores(cands, margin_matrix) ==
    [c \in Range(cands) |-> 0 - worst_margin(margin_matrix, cands, c, 1, 0)]

resolve_ties_by_margin(cands, margin_matrix) ==
    sorted_reverse(cands, margin_scores(cands, margin_matrix))

(***************************************************************************)
(* resolve_ties_by_copeland                                                *)
(***************************************************************************)
\* faulty variant of copeland_scores: a pairwise tie counts as a defeat
copeland_scores_ties_lose(cands, matrix) ==
    [c \in Range(cands) |->
        LET wins == Cardinality({k \in DOMAIN cands :
                        /\ c # cands[k]
                        /\ Get(matrix, c, cands[k]) > Get(matrix, cands[k], c)})
            losses == Cardinality({k \in DOMAIN cands :
                        /\ c # cands[k]
                        /\ ~(Get(matrix, c, cands[k]) > Get(matrix, cands[k], c))})
        IN wins - losses]

copeland_scores(cands, matrix) ==
    [c \in Range(cands) |->
        LET wins == Cardinality({k \in DOMAIN cands :
                        /\ c # cands[k]
                        /\ Get(matrix, c, cands[k]) > Get(matrix, cands[k], c)})
            losses == Cardinality({k \in DOMAIN cands :
                        /\ c # cands[k]
                        /\ ~(Get(matrix, c, cands[k]) > Get(matrix, cands[k], c))
                        /\ Get(matrix, cands[k], c) > Get(matrix, c, cands[k])})
        IN wins - losses]

resolve_ties_by_copeland(cands, matrix) ==
    sorted_reverse(cands, copeland_scores(cands, matrix))

(***************************************************************************)
(* resolve_ties_by_borda                                                   *)
(***************************************************************************)
\* for i, candidate in enumerate(ranking): scores[candidate] += n - i - 1
\* (i is the 0-based index, k = i + 1 the index into the sequence)
RECURSIVE BordaRanking(_, _, _, _)
BordaRanking(scores, ranking, cands, k) ==
    IF k > Len(ranking) THEN scores
    ELSE LET n == Len(ranking)
             next == IF ranking[k] \in Range(cands)
                     THEN [scores EXCEPT ![ranking[k]] = @ + (n - (k - 1) - 1)]
                     ELSE scores
         IN BordaRanking(next, ranking, cands, k + 1)

RECURSIVE BordaRankings(_, _, _, _)
BordaRankings(scores, rks, cands, r) ==
    IF r > Len(rks) THEN scores
    ELSE BordaRankings(BordaRanking(scores, rks[r], cands, 1), rks, cands, r + 1)

\* faulty variant of borda_scores: positions are counted among the candidates
\* to separate only, the other entries of a ballot being dropped first
borda_scores_restricted(rks, cands) ==
    BordaRankings([c \in Range(cands) |-> 0],
                  [r \in DOMAIN rks |->
                       SelectSeq(rks[r], LAMBDA x : x \in Range(cands))],
                  cands, 1)

\* defaultdict(int): a candidate no ballot names scores 0
borda_scores(rks, cands) ==
    BordaRankings([c \in Range(cands) |-> 0], rks, cands, 1)

resolve_ties_by_borda(rks, cands) ==
    sorted_reverse(cands, borda_scores(rks, cands))

(***************************************************************************)
(* compute_full_ranking                                                    *)
(***************************************************************************)
\* Python truth value of the Optional[int] winner: None and 0 are false
Truthy(winner) == winner # None /\ winner # 0

\* [c for c in candidates if c != winner]
RECURSIVE Without(_, _)
Without(cands, winner) ==
    IF cands = <<>> THEN <<>>
    ELSE IF Head(cands) # winner THEN <<Head(cands)>> \o Without(Tail(cands), winner)
         ELSE Without(Tail(cands), winner)

\* faulty variant of tie_break: an unknown strategy falls back to "margin"
tie_break_defaulting(rks, cands, method, matrix, margin_matrix) ==
    IF method = "copeland"
    THEN [raised |-> "", ranking |-> resolve_ties_by_copeland(cands, matrix)]
    ELSE IF method = "borda"
    THEN [raised |-> "", ranking |-> resolve_ties_by_borda(rks, cands)]
    ELSE [raised |-> "", ranking |-> resolve_ties_by_margin(cands, margin_matrix)]

\* the strategy dispatch at the end of compute_full_ranking
tie_break(rks, cands, method, matrix, margin_matrix) ==
    IF method = "margin"
    THEN [raised |-> "", ranking |-> resolve_ties_by_margin(cands, margin_matrix)]
    ELSE IF method = "copeland"
    THEN [raised |-> "", ranking |-> resolve_ties_by_copeland(cands, matrix)]
    ELSE IF method = "borda"
    THEN [raised |-> "", ranking |-> resolve_ties_by_borda(rks, cands)]
    ELSE [raised |-> "ValueError", ranking |-> <<>>]

RECURSIVE compute_full_ranking(_, _, _)
compute_full_ranking(rks, cands, method) ==
    LET matrix == compute_pairwise_matrix(rks, cands)
        margin_matrix == compute_margin_matrix(matrix, cands)
        winner == find_condorcet_winner(matrix, cands)
        remaining == Without(cands, winner)
        rest_ranking == compute_full_ranking(rks, remaining, method)
    IN IF Truthy(winner)
       THEN IF remaining # <<>>
            THEN IF rest_ranking.raised # "" THEN rest_ranking
                 ELSE [raised |-> "", ranking |-> <<winner>> \o rest_ranking.ranking]
            ELSE [raised |-> "", ranking |-> <<winner>>]
       ELSE tie_break(rks, cands, method, matrix, margin_matrix)

(***************************************************************************)
(* _identify_ties                                                          *)
(***************************************************************************)
TieThreshold == 1

Abs(x) == IF x < 0 THEN 0 - x ELSE x

\* margin_matrix[a][b] finds no such key: a row holds every candidate but its
\* own, so this is the lookup of a candidate against itself
KeyMissing(margin_matrix, a, b) ==
    a \notin DOMAIN margin_matrix \/ b \notin DOMAIN margin_matrix[a]

\* faulty variant of ExtendTie: the next candidate is compared with the one
\* just before it instead of with ranking[i]
RECURSIVE ExtendTie_adjacent(_, _, _, _)
ExtendTie_adjacent(ranking, margin_matrix, i, j) ==
    IF j > Len(ranking) THEN j
    ELSE LET candidate_a == ranking[j - 1]
             candidate_b == ranking[j]
             margin_ab == margin_matrix[candidate_a][candidate_b]
             margin_ba == margin_matrix[candidate_b][candidate_a]
         IN IF Abs(margin_ab) <= TieThreshold /\ Abs(margin_ba) <= TieThreshold
            THEN ExtendTie_adjacent(ranking, margin_matrix, i, j + 1)
            ELSE j

\* the inner while loop: the index j it stops at (i, j index the sequence);
\* it also stops where the lookup raises
RECURSIVE ExtendTie(_, _, _, _)
ExtendTie(ranking, margin_matrix, i, j) ==
    IF j > Len(ranking) THEN j
    ELSE IF KeyMissing(margin_matrix, ranking[i], ranking[j]) THEN j
    ELSE LET candidate_a == ranking[i]
             candidate_b == ranking[j]
             margin_ab == margin_matrix[candidate_a][candidate_b]
             margin_ba == margin_matrix[candidate_b][candidate_a]
         IN IF Abs(margin_ab) <= TieThreshold /\ Abs(margin_ba) <= TieThreshold
            THEN ExtendTie(ranking, margin_matrix, i, j + 1)
            ELSE j

\* faulty variant of ScanTies: the scan resumes at i + 1 after a group too
RECURSIVE ScanTies_every_index(_, _, _, _)
ScanTies_every_index(ties, ranking, margin_matrix, i) ==
    IF i > Len(ranking) THEN ties
    ELSE LET j == ExtendTie(ranking, margin_matrix, i, i + 1)
             tie_group == SubSeq(ranking, i, j - 1)
             next == IF Len(tie_group) > 1 THEN Append(ties, tie_group) ELSE ties
         IN ScanTies_every_index(next, ranking, margin_matrix, i + 1)

\* the outer while loop; it resumes at j after a group, at i + 1 otherwise
RECURSIVE ScanTies(_, _, _, _)
ScanTies(ties, ranking, margin_matrix, i) ==
    IF i > Len(ranking) THEN ties
    ELSE LET j == ExtendTie(ranking, margin_matrix, i, i + 1)
             tie_group == SubSeq(ranking, i, j - 1)
             next == IF Len(tie_group) > 1 THEN Append(ties, tie_group) ELSE ties
         IN ScanTies(next, ranking, margin_matrix, IF j > i + 1 THEN j ELSE i + 1)

identify_ties(ranking, margin_matrix) == ScanTies(<<>>, ranking, margin_matrix, 1)

\* the scan from index i comes to a lookup that raises KeyError
RECURSIVE TieLookupFails(_, _, _)
TieLookupFails(ranking, margin_matrix, i) ==
    IF i > Len(ranking) THEN FALSE
    ELSE LET j == ExtendTie(ranking, margin_matrix, i, i + 1)
         IN \/ /\ j <= Len(ranking)
               /\ KeyMissing(margin_matrix, ranking[i], ranking[j])
            \/ TieLookupFails(ranking, margin_matrix,
                              IF j > i + 1 THEN j ELSE i + 1)

(***************************************************************************)
(* conduct_election                                                        *)
(***************************************************************************)
\* no election result: none asked for yet, or the ballots changed since
NoResult == [status |-> "pending"]

conduct_election(rks, cands, method) ==
    IF ~validate_rankings(rks, cands)
    THEN [status |-> "VoteValidationError", error |-> ScanBallots(rks, cands, 1)]
    ELSE LET matrix == compute_pairwise_matrix(rks, cands)
             margin_matrix == compute_margin_matrix(matrix, cands)
             winner == find_condorcet_winner(matrix, cands)
             smith_set == compute_smith_set(matrix, cands)
             full == compute_full_ranking(rks, cands, method)
         IN IF full.raised # "" THEN [status |-> full.raised]
            ELSE IF TieLookupFails(full.ranking, margin_matrix, 1)
            THEN [status |-> "KeyError"]
            ELSE [status |-> "returned",
                  winner |-> winner,
                  pairwise_matrix |-> matrix,
                  vote_count |-> Len(rks),
                  candidates |-> cands,
                  smith_set |-> smith_set,
                  ranking |-> full.ranking,
                  ties |-> identify_ties(full.ranking, margin_matrix),
                  margin_matrix |-> margin_matrix]

(***************************************************************************)
(* condorcet_winner, the function of the former interface                  *)
(***************************************************************************)
\* faulty variant of condorcet_winner: without the try/except
condorcet_winner_uncaught(rks, cands) ==
    LET outcome == conduct_election(rks, cands, "margin")
    IN IF outcome.status = "returned"
       THEN [status |-> "legacy", winner |-> outcome.winner,
             matrix |-> outcome.pairwise_matrix]
       ELSE [status |-> outcome.status]

\* a fresh engine with the default strategy; the validation error is caught
\* and answered by (None, {}), any other exception passes through
condorcet_winner(rks, cands) ==
    LET outcome == conduct_election(rks, cands, "margin")
    IN IF outcome.status = "returned"
       THEN [status |-> "legacy", winner |-> outcome.winner,
             matrix |-> outcome.pairwise_matrix]
       ELSE IF outcome.status = "VoteValidationError"
       THEN [status |-> "legacy", winner |-> None, matrix |-> <<>>]
       ELSE [status |-> outcome.status]

(***************************************************************************)
(* Elections over a growing ballot set (Spec).                             *)
(***************************************************************************)
Init ==
    /\ candidates \in CandidateLists
    /\ tie_breaking_method \in Strategies
    /\ rankings = <<>>
    /\ pairwise_input = <<>>
    /\ result = NoResult

\* the caller stores one more valid ballot; the last result is now stale.
\* Ballots are cast in non-decreasing BallotCode order, so that each
\* collection of ballots is enumerated once, not once per arrangement.
CastBallot ==
    /\ Len(rankings) < MaxBallots
    /\ \E ballot \in ValidBallots(candidates) :
           /\ rankings # <<>> =>
                  BallotCode(rankings[Len(rankings)]) <= BallotCode(ballot)
           /\ rankings' = Append(rankings, ballot)
    /\ result' = NoResult
    /\ UNCHANGED <<candidates, tie_breaking_method, pairwise_input>>

\* conduct_election(rankings, candidates) on the ballots stored so far
ConductElection ==
    /\ result' = conduct_election(rankings, candidates, tie_breaking_method)
    /\ UNCHANGED <<candidates, rankings, tie_breaking_method, pairwise_input>>

Next == CastBallot \/ ConductElection

Spec == Init /\ [][Next]_vars

(***************************************************************************)
(* Elections over ballots that need not be valid (BallotSpec).             *)
(***************************************************************************)
\* every sequence over S of length at most n
RECURSIVE AllSeqs(_, _)
AllSeqs(S, n) ==
    IF n = 0 THEN {<<>>}
    ELSE LET shorter == AllSeqs(S, n - 1)
         IN shorter \cup {Append(s, x) : s \in shorter, x \in S}

\* ballots as a voter may send them: any ids, declared or not, repeated or not
AnyBallots == AllSeqs(CandidateIds, Cardinality(CandidateIds))

BallotInit ==
    /\ candidates \in CandidateLists
    /\ tie_breaking_method = "margin"
    /\ rankings = <<>>
    /\ pairwise_input = <<>>
    /\ result = NoResult

\* one more ballot is stored, valid or not, in any order of arrival
CastAnyBallot ==
    /\ Len(rankings) < MaxBallots - 1
    /\ \E ballot \in AnyBallots : rankings' = Append(rankings, ballot)
    /\ result' = NoResult
    /\ UNCHANGED <<candidates, tie_breaking_method, pairwise_input>>

BallotNext == CastAnyBallot \/ ConductElection

BallotSpec == BallotInit /\ [][BallotNext]_vars

(***************************************************************************)
(* The Borda tie-break on a subset of the candidates (BordaSpec).          *)
(***************************************************************************)
\* the lists of declared candidates a tie-break can be asked to order
Sublists(cands) == {s \in CandidateLists : Range(s) \subseteq Range(cands)}

BordaInit ==
    /\ candidates \in CandidateLists
    /\ tie_breaking_method = "borda"
    /\ rankings = <<>>
    /\ pairwise_input = <<>>
    /\ result = NoResult

ResolveTiesByBorda ==
    /\ \E subset \in Sublists(candidates) :
           result' = [status |-> "by_borda", subset |-> subset,
                      ranking |-> resolve_ties_by_borda(rankings, subset)]
    /\ UNCHANGED <<candidates, rankings, tie_breaking_method, pairwise_input>>

BordaNext == CastBallot \/ ResolveTiesByBorda

BordaSpec == BordaInit /\ [][BordaNext]_vars

(***************************************************************************)
(* Elections under a strategy name the dispatch does not know (ConfigSpec).*)
(***************************************************************************)
ConfigInit ==
    /\ candidates \in CandidateLists
    /\ tie_breaking_method = "invalid"
    /\ rankings = <<>>
    /\ pairwise_input = <<>>
    /\ result = NoResult

ConfigSpec == ConfigInit /\ [][Next]_vars

(***************************************************************************)
(* _identify_ties on an arbitrary ranking and margins (TiesSpec).          *)
(***************************************************************************)
\* a ranking of four, long enough to hold two tie groups
LongRanking == <<0, 1, 2, 3>>

TieRankings == CandidateLists \cup {LongRanking}

UnorderedPairs(S) == {p \in S \X S : p[1] < p[2]}

\* the pairwise matrices whose margins take every value from beyond the
\* threshold on one side to beyond it on the other
TieMatrices(cands) ==
    {[a \in Range(cands) |-> [b \in Range(cands) \ {a} |->
          IF a < b
          THEN (IF m[<<a, b>>] > 0 THEN m[<<a, b>>] ELSE 0)
          ELSE (IF m[<<b, a>>] < 0 THEN 0 - m[<<b, a>>] ELSE 0)]] :
        m \in [UnorderedPairs(Range(cands)) ->
                   (0 - (TieThreshold + 1))..(TieThreshold + 1)]}

TiesInit ==
    /\ candidates \in TieRankings
    /\ tie_breaking_method = "margin"
    /\ rankings = <<>>
    /\ pairwise_input \in TieMatrices(candidates)
    /\ result = NoResult

\* _identify_ties on the candidates taken as the final ranking
IdentifyTies ==
    /\ result' = [status |-> "ties",
                  ranking |-> candidates,
                  ties |-> identify_ties(candidates,
                               compute_margin_matrix(pairwise_input, candidates))]
    /\ UNCHANGED <<candidates, rankings, tie_breaking_method, pairwise_input>>

TiesNext == IdentifyTies

TiesSpec == TiesInit /\ [][TiesNext]_vars

(***************************************************************************)
(* The same election conducted twice (RepeatSpec).                         *)
(***************************************************************************)
\* a second call of conduct_election, on the same engine or on another one
\* built with the same strategy, with the inputs of the call that returned
ConductElectionAgain ==
    /\ result.status = "returned"
    /\ result' = [status |-> "repeated",
                  first  |-> result,
                  second |-> conduct_election(rankings, candidates,
                                              tie_breaking_method)]
    /\ UNCHANGED <<candidates, rankings, tie_breaking_method, pairwise_input>>

RepeatNext == CastBallot \/ ConductElection \/ ConductElectionAgain

RepeatSpec == Init /\ [][RepeatNext]_vars

(***************************************************************************)
(* Elections over a candidate list that repeats an id (DuplicateSpec).     *)
(***************************************************************************)
\* candidate lists in which some id stands more than once
DuplicateLists ==
    {s \in AllSeqs(CandidateIds, Cardinality(CandidateIds)) :
        Cardinality(Range(s)) < Len(s)}

DuplicateInit ==
    /\ candidates \in DuplicateLists
    /\ tie_breaking_method \in Strategies
    /\ rankings = <<>>
    /\ pairwise_input = <<>>
    /\ result = NoResult

DuplicateSpec == DuplicateInit /\ [][Next]_vars

(***************************************************************************)
(* The former interface over ballots that need not be valid (LegacySpec).  *)
(***************************************************************************)
CondorcetWinner ==
    /\ result' = condorcet_winner(rankings, candidates)
    /\ UNCHANGED <<candidates, rankings, tie_breaking_method, pairwise_input>>

LegacyNext == CastAnyBallot \/ CondorcetWinner

LegacySpec == BallotInit /\ [][LegacyNext]_vars

(***************************************************************************)
(* The tabulation of the composer's recursion levels (RetabulateSpec).     *)
(***************************************************************************)
\* the lists [c for c in candidates if ...] can leave: candidates taken out,
\* the others in their order
Remainders(cands) ==
    {SelectSeq(cands, LAMBDA c : c \in S) : S \in SUBSET Range(cands)}

\* the matrix of the full list, as conduct_election tabulates it, next to the
\* matrix compute_full_ranking tabulates for a remaining list
Retabulate ==
    /\ \E remaining \in Remainders(candidates) :
           result' = [status |-> "retabulated",
                      remaining |-> remaining,
                      full |-> compute_pairwise_matrix(rankings, candidates),
                      matrix |-> compute_pairwise_matrix(rankings, remaining)]
    /\ UNCHANGED <<candidates, rankings, tie_breaking_method, pairwise_input>>

RetabulateNext == CastBallot \/ Retabulate

RetabulateSpec == BallotInit /\ [][RetabulateNext]_vars

(***************************************************************************)
(* The removal loop of compute_smith_set, pass by pass (SmithSpec).        *)
(***************************************************************************)
\* current_set = set(candidates), before the first pass
SmithStart ==
    /\ result = NoResult
    /\ result' = [status |-> "smith_loop",
                  current_set |-> Range(candidates),
                  passes |-> 0,
                  done |-> FALSE]
    /\ UNCHANGED <<candidates, rankings, tie_breaking_method, pairwise_input>>

\* one pass of while True: break when to_remove is empty, else remove
SmithPass ==
    /\ result.status = "smith_loop"
    /\ ~result.done
    /\ LET removed == to_remove(pairwise_input, result.current_set)
       IN result' = [status |-> "smith_loop",
                     current_set |-> result.current_set \ removed,
                     passes |-> result.passes + 1,
                     done |-> (removed = {})]
    /\ UNCHANGED <<candidates, rankings, tie_breaking_method, pairwise_input>>

SmithNext == SmithStart \/ SmithPass

\* the loop is sequential code: a pass that can run does run
SmithSpec == TiesInit /\ [][SmithNext]_vars /\ WF_vars(SmithNext)

(***************************************************************************)
(* The configured strategy on the tabulated ballots (TieBreakSpec).        *)
(***************************************************************************)
\* the dispatch of compute_full_ranking on the candidates as the list to
\* order, with the matrices tabulated from the ballots
ResolveTies ==
    /\ LET matrix == compute_pairwise_matrix(rankings, candidates)
           ordered == tie_break(rankings, candidates, tie_breaking_method, matrix,
                                compute_margin_matrix(matrix, candidates))
       IN result' = [status |-> "resolved",
                     matrix |-> matrix,
                     ranking |-> ordered.ranking]
    /\ UNCHANGED <<candidates, rankings, tie_breaking_method, pairwise_input>>

TieBreakNext == CastBallot \/ ResolveTies

TieBreakSpec == Init /\ [][TieBreakNext]_vars

(***************************************************************************)
(* The resolver on an arbitrary pairwise matrix (MatrixSpec).              *)
(***************************************************************************)
OrderedPairs(S) == {p \in S \X S : p[1] # p[2]}

\* every matrix over the candidates with entries 0..MaxBallots
Matrices(cands) ==
    {[a \in Range(cands) |-> [b \in Range(cands) \ {a} |-> flat[<<a, b>>]]] :
        flat \in [OrderedPairs(Range(cands)) -> 0..MaxBallots]}

MatrixInit ==
    /\ candidates \in CandidateLists
    /\ tie_breaking_method = "margin"
    /\ rankings = <<>>
    /\ pairwise_input \in Matrices(candidates)
    /\ result = NoResult

FindCondorcetWinner ==
    /\ result' = [status |-> "winner",
                  winner |-> find_condorcet_winner(pairwise_input, candidates)]
    /\ UNCHANGED <<candidates, rankings, tie_breaking_method, pairwise_input>>

ComputeSmithSet ==
    /\ result' = [status |-> "smith_set",
                  smith_set |-> compute_smith_set(pairwise_input, candidates)]
    /\ UNCHANGED <<candidates, rankings, tie_breaking_method, pairwise_input>>

ComputeMarginMatrix ==
    /\ result' = [status |-> "margin_matrix",
                  margin_matrix |-> compute_margin_matrix(pairwise_input, candidates)]
    /\ UNCHANGED <<candidates, rankings, tie_breaking_method, pairwise_input>>

\* resolve_ties_by_margin on the candidates and the margins of the matrix
ResolveTiesByMargin ==
    /\ result' = [status |-> "by_margin",
                  ranking |-> resolve_ties_by_margin(candidates,
                                  compute_margin_matrix(pairwise_input, candidates))]
    /\ UNCHANGED <<candidates, rankings, tie_breaking_method, pairwise_input>>

ResolveTiesByCopeland ==
    /\ result' = [status |-> "by_copeland",
                  ranking |-> resolve_ties_by_copeland(candidates, pairwise_input)]
    /\ UNCHANGED <<candidates, rankings, tie_breaking_method, pairwise_input>>

MatrixNext ==
    \/ FindCondorcetWinner
    \/ ComputeSmithSet
    \/ ComputeMarginMatrix
    \/ ResolveTiesByMargin
    \/ ResolveTiesByCopeland

MatrixSpec == MatrixInit /\ [][MatrixNext]_vars

(***************************************************************************)
(* Properties.                                                             *)
(***************************************************************************)
Returned == result.status = "returned"

CandidateSet == Range(candidates)

\* the orders the declared candidates can be listed in
Reorderings(cands) ==
    {p \in CandidateLists : Len(p) = Len(cands) /\ Range(p) = Range(cands)}

\* C strictly beats every other declared candidate in the matrix
BeatsEveryOther(matrix, C) ==
    \A O \in CandidateSet \ {C} : matrix[C][O] > matrix[O][C]

\* every member of T strictly beats every declared candidate outside T
Dominating(matrix, T) ==
    \A inside \in T : \A outside \in CandidateSet \ T :
        matrix[inside][outside] > matrix[outside][inside]

\* the ballots that rank A before B
BallotsPreferring(A, B) ==
    {r \in DOMAIN rankings :
        \E i, j \in DOMAIN rankings[r] :
            i < j /\ rankings[r][i] = A /\ rankings[r][j] = B}

\* the ballots that name both A and B
BallotsNamingBoth(A, B) ==
    {r \in DOMAIN rankings : {A, B} \subseteq Range(rankings[r])}

\* C1: for valid ballots and a non-empty duplicate-free candidate list, under
\* each of the three strategies the ranking of compute_full_ranking lists
\* every declared candidate exactly once and nothing else.
C1_RankingIsPermutation ==
    (Returned /\ candidates # <<>>) =>
        /\ Len(result.ranking) = Len(candidates)
        /\ Range(result.ranking) = CandidateSet
        /\ \A i, j \in DOMAIN result.ranking :
               result.ranking[i] = result.ranking[j] => i = j

\* C1 witness: a three-candidate election without Condorcet winner (a
\* pairwise cycle), ranked by the tie-break strategy
C1_Witness ==
    /\ Returned
    /\ Len(candidates) = 3
    /\ result.winner = None
    /\ \A c \in CandidateSet : \E o \in CandidateSet \ {c} :
           result.pairwise_matrix[o][c] > result.pairwise_matrix[c][o]
    /\ Len(result.ranking) = 3

\* C2: whenever conduct_election returns a winner that is not None, the
\* winner is the first element of the returned ranking.
C2_WinnerIsFirst ==
    (Returned /\ result.winner # None) => result.ranking[1] = result.winner

\* C3: find_condorcet_winner returns C if and only if C strictly beats every
\* other declared candidate (a tie against one opponent disqualifies), and
\* None when no candidate qualifies.
C3_WinnerIffBeatsAll ==
    result.status = "winner" =>
        /\ \A C \in CandidateSet :
               (result.winner = C) <=> BeatsEveryOther(pairwise_input, C)
        /\ (result.winner = None) <=>
               ~ \E C \in CandidateSet : BeatsEveryOther(pairwise_input, C)

\* C3 witness: the winner is found behind two candidates the scan rejects
C3_Witness ==
    /\ result.status = "winner"
    /\ Len(candidates) = 3
    /\ result.winner = candidates[3]

\* C4: at most one candidate satisfies the Condorcet-winner predicate, and
\* find_condorcet_winner returns the same value for every order in which
\* the candidates are listed.
C4_WinnerUniqueAnyOrder ==
    /\ Cardinality({C \in CandidateSet : BeatsEveryOther(pairwise_input, C)}) <= 1
    /\ result.status = "winner" =>
           \A p \in Reorderings(candidates) :
               find_condorcet_winner(pairwise_input, p) = result.winner

\* C4 witness: a winner exists among three candidates and is not listed first
C4_Witness ==
    /\ result.status = "winner"
    /\ Len(candidates) = 3
    /\ result.winner # None
    /\ result.winner # candidates[1]

\* C5: for a non-empty candidate list compute_smith_set returns a non-empty
\* subset of the candidates whose every member strictly beats every
\* candidate left outside it.
C5_SmithSetDominates ==
    (result.status = "smith_set" /\ candidates # <<>>) =>
        /\ result.smith_set # {}
        /\ result.smith_set \subseteq CandidateSet
        /\ Dominating(pairwise_input, result.smith_set)

\* C5 witness: two of three candidates remain, one was removed
C5_Witness ==
    /\ result.status = "smith_set"
    /\ Len(candidates) = 3
    /\ Cardinality(result.smith_set) = 2

\* C6: no non-empty proper subset of the set compute_smith_set returns
\* strictly beats every candidate outside that subset (minimality).
C6_SmithSetMinimal ==
    result.status = "smith_set" =>
        \A T \in SUBSET result.smith_set :
            (T # {} /\ T # result.smith_set) => ~Dominating(pairwise_input, T)

\* C7: the Smith set of conduct_election is the singleton {W} exactly when
\* W is the Condorcet winner.
C7_SingletonIffWinner ==
    Returned =>
        \A W \in CandidateSet :
            (result.winner = W) <=> (result.smith_set = {W})

\* C8: a winner that is not None is a member of the returned Smith set.
C8_WinnerInSmithSet ==
    (Returned /\ result.winner # None) => result.winner \in result.smith_set

\* C8 witness: an election over three candidates with a Condorcet winner
C8_Witness ==
    /\ Returned
    /\ Len(candidates) = 3
    /\ result.winner # None
    /\ result.vote_count >= 2

\* C9: the pairwise matrix has an entry for every ordered pair of distinct
\* declared candidates, and matrix[A][B] is the number of ballots in which
\* A and B both appear with A before B.
C9_MatrixCountsPreferences ==
    Returned =>
        /\ DOMAIN result.pairwise_matrix = CandidateSet
        /\ \A A \in CandidateSet :
               /\ DOMAIN result.pairwise_matrix[A] = CandidateSet \ {A}
               /\ \A B \in CandidateSet \ {A} :
                      result.pairwise_matrix[A][B] =
                          Cardinality(BallotsPreferring(A, B))

\* C9 witness: three ballots, one of them partial, give a count of 2
C9_Witness ==
    /\ Returned
    /\ Len(rankings) = 3
    /\ \E r \in DOMAIN rankings : Len(rankings[r]) = 2
    /\ \E A \in CandidateSet : \E B \in CandidateSet \ {A} :
           /\ result.pairwise_matrix[A][B] = 2
           /\ result.pairwise_matrix[B][A] = 0

\* C10: for distinct candidates A and B, matrix[A][B] + matrix[B][A] is at
\* most vote_count; only the ballots that name both A and B are counted.
C10_PairTotalBounded ==
    Returned =>
        \A A \in CandidateSet : \A B \in CandidateSet \ {A} :
            /\ result.pairwise_matrix[A][B] + result.pairwise_matrix[B][A]
                   <= result.vote_count
            /\ result.pairwise_matrix[A][B] + result.pairwise_matrix[B][A]
                   = Cardinality(BallotsNamingBoth(A, B))

\* C10 witness: a ballot omits A, and the pair total stays below vote_count
C10_Witness ==
    /\ Returned
    /\ result.vote_count = 3
    /\ \E A \in CandidateSet : \E B \in CandidateSet \ {A} :
           /\ \E r \in DOMAIN rankings :
                  A \notin Range(rankings[r]) /\ B \in Range(rankings[r])
           /\ result.pairwise_matrix[A][B] + result.pairwise_matrix[B][A] = 2

\* the result lists every candidate of the list exactly once
IsPermutation(ranking, cands) ==
    /\ Len(ranking) = Len(cands)
    /\ Range(ranking) = Range(cands)

\* C11: compute_margin_matrix gives margin[A][B] = matrix[A][B] - matrix[B][A]
\* for all distinct declared A and B, hence margin[A][B] = -margin[B][A].
C11_MarginAntisymmetric ==
    result.status = "margin_matrix" =>
        /\ DOMAIN result.margin_matrix = CandidateSet
        /\ \A A \in CandidateSet :
               /\ DOMAIN result.margin_matrix[A] = CandidateSet \ {A}
               /\ \A B \in CandidateSet \ {A} :
                      /\ result.margin_matrix[A][B] =
                             pairwise_input[A][B] - pairwise_input[B][A]
                      /\ result.margin_matrix[A][B] = 0 - result.margin_matrix[B][A]

\* C11 witness: a margin matrix over three candidates with a margin of 2
C11_Witness ==
    /\ result.status = "margin_matrix"
    /\ Len(candidates) = 3
    /\ \E A \in CandidateSet : \E B \in CandidateSet \ {A} :
           result.margin_matrix[A][B] = 2 /\ pairwise_input[B][A] = 1

\* the largest margin by which an opponent beats c, 0 when nobody does
WorstLoss(matrix, c) ==
    LET losses == {0} \cup {matrix[o][c] - matrix[c][o] : o \in CandidateSet \ {c}}
    IN CHOOSE w \in losses : \A v \in losses : v <= w

\* C14: resolve_ties_by_margin places a candidate whose worst-case pairwise
\* loss is smaller before a candidate whose worst-case loss is larger.
C14_SmallerLossFirst ==
    result.status = "by_margin" =>
        \A i, j \in DOMAIN result.ranking :
            WorstLoss(pairwise_input, result.ranking[i])
                < WorstLoss(pairwise_input, result.ranking[j]) => i < j

\* wins minus defeats of c against the other candidates; ties count for neither
CopelandScore(matrix, c) ==
    Cardinality({o \in CandidateSet \ {c} : matrix[c][o] > matrix[o][c]})
        - Cardinality({o \in CandidateSet \ {c} : matrix[o][c] > matrix[c][o]})

\* C15: resolve_ties_by_copeland orders the subset by non-increasing Copeland
\* score (opponents strictly beaten minus opponents that strictly beat).
C15_CopelandOrder ==
    result.status = "by_copeland" =>
        /\ IsPermutation(result.ranking, candidates)
        /\ \A i, j \in DOMAIN result.ranking :
               i < j => CopelandScore(pairwise_input, result.ranking[i])
                            >= CopelandScore(pairwise_input, result.ranking[j])

\* C15 witness: three candidates, one pairwise tie, and the last listed
\* candidate is ranked first
C15_Witness ==
    /\ result.status = "by_copeland"
    /\ Len(candidates) = 3
    /\ result.ranking[1] = candidates[3]
    /\ \E A \in CandidateSet : \E B \in CandidateSet \ {A} :
           pairwise_input[A][B] = pairwise_input[B][A]
    /\ CopelandScore(pairwise_input, result.ranking[1])
           > CopelandScore(pairwise_input, result.ranking[2])

(***************************************************************************)
(* Ballot validation (BallotSpec).                                         *)
(***************************************************************************)
NamesUndeclared(ballot) == \E k \in DOMAIN ballot : ballot[k] \notin CandidateSet

RepeatsAnId(ballot) ==
    \E j, k \in DOMAIN ballot : j # k /\ ballot[j] = ballot[k]

BreaksARule(ballot) == NamesUndeclared(ballot) \/ RepeatsAnId(ballot)

Conducted == result.status # "pending"

\* C12: conduct_election raises the validation error, and returns no result
\* at all, exactly when some ballot names an undeclared id or names an id
\* twice; ballots that are duplicate-free selections of declared candidates,
\* the empty ballot included, never cause it.
C12_ValidationErrorExactly ==
    Conducted =>
        /\ result.status = "VoteValidationError"
               <=> \E r \in DOMAIN rankings : BreaksARule(rankings[r])
        /\ result.status = "VoteValidationError"
               => DOMAIN result = {"status", "error"}
        /\ (\A r \in DOMAIN rankings :
                /\ Range(rankings[r]) \subseteq CandidateSet
                /\ Cardinality(Range(rankings[r])) = Len(rankings[r]))
               => result.status = "returned"

\* the error is raised for a ballot whose only fault is a repeated id, next
\* to an empty ballot
C12_Witness ==
    /\ result.status = "VoteValidationError"
    /\ \E r \in DOMAIN rankings : rankings[r] = <<>>
    /\ \E r \in DOMAIN rankings : RepeatsAnId(rankings[r])
    /\ \A r \in DOMAIN rankings : ~NamesUndeclared(rankings[r])

\* partial and empty ballots alone are accepted
C12_WitnessPartial ==
    /\ result.status = "returned"
    /\ \E r \in DOMAIN rankings : rankings[r] = <<>>
    /\ \E r \in DOMAIN rankings :
           /\ rankings[r] # <<>>
           /\ Len(rankings[r]) < Len(candidates)

FirstBroken ==
    CHOOSE r \in DOMAIN rankings :
        /\ BreaksARule(rankings[r])
        /\ \A q \in DOMAIN rankings : BreaksARule(rankings[q]) => r <= q

Occurrences(ballot, x) == Cardinality({k \in DOMAIN ballot : ballot[k] = x})

\* C13: when the validation fails, the reported ballot index (counted from 0)
\* is the smallest index of a ballot that breaks a rule, and the reported
\* value is an offending id of that ballot: an undeclared id it names, or
\* the ids it repeats.
C13_FirstViolationReported ==
    result.status = "VoteValidationError" =>
        /\ result.error.kind \in {"undeclared", "duplicate"}
        /\ result.error.vote = FirstBroken - 1
        /\ result.error.kind = "undeclared" =>
               /\ result.error.candidate \in Range(rankings[FirstBroken])
               /\ result.error.candidate \notin CandidateSet
        /\ result.error.kind = "duplicate" =>
               /\ result.error.duplicates # <<>>
               /\ \A k \in DOMAIN result.error.duplicates :
                      Occurrences(rankings[FirstBroken],
                                  result.error.duplicates[k]) > 1

\* two ballots break a rule and the earlier one is reported
C13_Witness ==
    /\ result.status = "VoteValidationError"
    /\ Len(rankings) = 2
    /\ NamesUndeclared(rankings[1]) /\ ~RepeatsAnId(rankings[1])
    /\ RepeatsAnId(rankings[2])
    /\ result.error.vote = 0

\* a valid ballot is passed over and the second ballot is reported
C13_WitnessLater ==
    /\ result.status = "VoteValidationError"
    /\ Len(rankings) = 2
    /\ ~BreaksARule(rankings[1])
    /\ result.error.vote = 1
    /\ result.error.kind = "duplicate"

(***************************************************************************)
(* Borda tie-break (BordaSpec).                                            *)
(***************************************************************************)
\* what one ballot gives c: n-1-i at 0-indexed position i, 0 when omitted
BordaPoints(ballot, c) ==
    IF \E k \in DOMAIN ballot : ballot[k] = c
    THEN Len(ballot) - (CHOOSE k \in DOMAIN ballot : ballot[k] = c)
    ELSE 0

RECURSIVE BordaTotal(_, _)
BordaTotal(c, r) ==
    IF r = 0 THEN 0 ELSE BordaTotal(c, r - 1) + BordaPoints(rankings[r], c)

BordaScore(c) == BordaTotal(c, Len(rankings))

\* C16: resolve_ties_by_borda orders the subset by non-increasing Borda score;
\* a ballot of length n gives the candidate at 0-indexed position i of the
\* full ballot n-1-i points, an omitted candidate 0, summed over the ballots.
C16_BordaOrder ==
    result.status = "by_borda" =>
        /\ IsPermutation(result.ranking, result.subset)
        /\ \A i, j \in DOMAIN result.ranking :
               i < j => BordaScore(result.ranking[i]) >= BordaScore(result.ranking[j])

\* two of three candidates are separated, the later listed one comes first,
\* and counting positions among the two alone would have tied them
C16_Witness ==
    /\ result.status = "by_borda"
    /\ Len(candidates) = 3
    /\ Len(result.subset) = 2
    /\ result.ranking[1] = result.subset[2]
    /\ BordaScore(result.ranking[1]) > BordaScore(result.ranking[2])
    /\ \E r \in DOMAIN rankings : Len(rankings[r]) = 1
    /\ \E r \in DOMAIN rankings :
           /\ Len(rankings[r]) = 3
           /\ rankings[r][2] \notin Range(result.subset)

(***************************************************************************)
(* Unknown strategy name (ConfigSpec).                                     *)
(***************************************************************************)
\* C strictly beats every other member of S on the ballots
WinsAmong(S, C) ==
    \A O \in S \ {C} :
        Cardinality(BallotsPreferring(C, O)) > Cardinality(BallotsPreferring(O, C))

\* peeling Condorcet winners off S one by one comes to a set without one
RECURSIVE PeelingStalls(_)
PeelingStalls(S) ==
    IF \E C \in S : WinsAmong(S, C)
    THEN LET C == CHOOSE W \in S : WinsAmong(S, W)
         IN S # {C} /\ PeelingStalls(S \ {C})
    ELSE TRUE

UnknownStrategy == tie_breaking_method \notin Strategies

\* C17: with an unrecognized strategy name, whenever the composer comes to a
\* candidate subset without a Condorcet winner, conduct_election raises the
\* configuration error and returns no result; no strategy is used instead.
C17_UnknownStrategyRaises ==
    (Conducted /\ UnknownStrategy /\ PeelingStalls(CandidateSet)) =>
        /\ result.status = "ValueError"
        /\ DOMAIN result = {"status"}

\* a winner with a non-zero id is peeled, the two candidates left are tied,
\* and the error is raised
C17_Witness ==
    /\ result.status = "ValueError"
    /\ UnknownStrategy
    /\ Len(candidates) = 3
    /\ \E C \in CandidateSet \ {0} :
           /\ WinsAmong(CandidateSet, C)
           /\ \A O \in CandidateSet \ {C} : ~WinsAmong(CandidateSet \ {C}, O)

\* C18: with an unrecognized strategy name, if every recursion level of the
\* composer has a Condorcet winner, conduct_election does not raise the
\* configuration error and returns a full ranking.
C18_CleanChainReturns ==
    (Conducted /\ UnknownStrategy /\ ~PeelingStalls(CandidateSet)) =>
        /\ result.status = "returned"
        /\ IsPermutation(result.ranking, candidates)

\* a strict chain over non-zero ids is ranked without error
C18_ChainRanked ==
    /\ result.status = "returned"
    /\ UnknownStrategy
    /\ Len(rankings) > 0
    /\ Len(candidates) = 2

(***************************************************************************)
(* Tie groups (TiesSpec).                                                  *)
(***************************************************************************)
Margin(A, B) == pairwise_input[A][B] - pairwise_input[B][A]

\* |margin| <= 1 in both directions
NearTie(A, B) ==
    /\ Margin(A, B) <= 1 /\ Margin(A, B) >= 0 - 1
    /\ Margin(B, A) <= 1 /\ Margin(B, A) >= 0 - 1

\* where candidate C stands in the ranking handed to _identify_ties
PlaceOf(C) == CHOOSE k \in DOMAIN result.ranking : result.ranking[k] = C

\* the candidate that follows the group member at place q, when there is one
HasFollower(q) == q + 1 <= Len(result.ranking)

\* C19 as stated: once A and B tie, the next candidate C joins the group
\* exactly when the member just before it and C are near-tied.
C19_ChainsAdjacentPairs ==
    result.status = "ties" =>
        \A g \in DOMAIN result.ties :
            LET group == result.ties[g]
                first == PlaceOf(group[1])
                last  == first + Len(group) - 1
            IN \A q \in (first + 1)..last :
                   HasFollower(q) =>
                       (q + 1 <= last
                            <=> NearTie(result.ranking[q], result.ranking[q + 1]))

\* C19 amended: once A and B tie, the next candidate C joins the group
\* exactly when the group's first member A and C are near-tied, whatever the
\* margin between C and the member just before it.
C19_ComparesWithGroupHead ==
    result.status = "ties" =>
        \A g \in DOMAIN result.ties :
            LET group == result.ties[g]
                first == PlaceOf(group[1])
                last  == first + Len(group) - 1
            IN /\ NearTie(group[1], group[2])
               /\ \A q \in (first + 1)..last :
                      HasFollower(q) =>
                          (q + 1 <= last
                               <=> NearTie(group[1], result.ranking[q + 1]))

\* A, B, C form one group although B and C are not near-tied, and a fourth
\* candidate near-tied with C stays out because it is not near-tied with A
C19_Witness ==
    /\ result.status = "ties"
    /\ Len(result.ranking) = 4
    /\ result.ties = <<SubSeq(result.ranking, 1, 3)>>
    /\ ~NearTie(result.ranking[2], result.ranking[3])
    /\ NearTie(result.ranking[3], result.ranking[4])

\* C20: every tie group has at least 2 members and is a run of consecutive
\* elements of the ranking; the groups appear in ranking order and no
\* candidate belongs to two of them.
C20_GroupsAreDisjointRuns ==
    result.status = "ties" =>
        /\ \A g \in DOMAIN result.ties :
               /\ Len(result.ties[g]) >= 2
               /\ \E p \in DOMAIN result.ranking :
                      result.ties[g]
                          = SubSeq(result.ranking, p, p + Len(result.ties[g]) - 1)
        /\ \A g, h \in DOMAIN result.ties :
               g < h =>
                   /\ Range(result.ties[g]) \cap Range(result.ties[h]) = {}
                   /\ PlaceOf(result.ties[g][Len(result.ties[g])])
                          < PlaceOf(result.ties[h][1])

\* two groups are reported, and the candidates on either side of their
\* border are near-tied as well
C20_Witness ==
    /\ result.status = "ties"
    /\ Len(result.ties) = 2
    /\ NearTie(result.ranking[2], result.ranking[3])

C22_EmptyElection ==
    (Conducted /\ candidates = <<>> /\ rankings = <<>>) =>
        /\ result.status = "returned"
        /\ result.winner = None
        /\ result.ranking = <<>>
        /\ result.smith_set = {}
        /\ result.ties = <<>>
        /\ DOMAIN result.pairwise_matrix = {}
        /\ DOMAIN result.margin_matrix = {}
        /\ result.vote_count = 0

C22_Witness ==
    /\ Returned
    /\ candidates = <<>>
    /\ rankings = <<>>
    /\ tie_breaking_method = "borda"

AllZero(matrix) ==
    /\ DOMAIN matrix = CandidateSet
    /\ \A A \in CandidateSet :
           /\ DOMAIN matrix[A] = CandidateSet \ {A}
           /\ \A B \in CandidateSet \ {A} : matrix[A][B] = 0

\* C23 as stated: with zero ballots and any non-empty duplicate-free candidate
\* list, conduct_election raises no error and returns no winner, vote_count
\* 0, zero-filled pairwise and margin matrices, and a ranking that lists
\* every candidate once.
C23_NoBallotsNoWinner ==
    (Conducted /\ candidates # <<>> /\ rankings = <<>>) =>
        /\ result.status = "returned"
        /\ result.winner = None
        /\ result.vote_count = 0
        /\ AllZero(result.pairwise_matrix)
        /\ AllZero(result.margin_matrix)
        /\ IsPermutation(result.ranking, candidates)

\* C23 amended: the same, except that a list of one candidate has that
\* candidate as winner; only lists of two or more candidates have none.
C23_NoBallotsWinnerOnlyIfAlone ==
    (Conducted /\ candidates # <<>> /\ rankings = <<>>) =>
        /\ result.status = "returned"
        /\ Len(candidates) >= 2 => result.winner = None
        /\ Len(candidates) = 1 => result.winner = candidates[1]
        /\ result.vote_count = 0
        /\ AllZero(result.pairwise_matrix)
        /\ AllZero(result.margin_matrix)
        /\ IsPermutation(result.ranking, candidates)

\* one candidate, no ballot: the candidate is the winner
C23_Witness ==
    /\ Returned
    /\ rankings = <<>>
    /\ Len(candidates) = 1
    /\ result.winner = candidates[1]
    /\ result.ranking = candidates

\* three candidates, no ballot: no winner, everybody ranked
C23_WitnessThree ==
    /\ Returned
    /\ rankings = <<>>
    /\ Len(candidates) = 3
    /\ result.winner = None
    /\ Len(result.ranking) = 3

(***************************************************************************)
(* Duplicate candidate ids (DuplicateSpec).                                *)
(***************************************************************************)
\* C24: conduct_election does not crash when the candidate list contains a
\* duplicate id: it returns a result or raises only the validation or the
\* configuration error, never a lookup failure.
C24_NoLookupFailure ==
    Conducted =>
        result.status \in {"returned", "VoteValidationError", "ValueError"}

(***************************************************************************)
(* A single complete ballot (Spec).                                        *)
(***************************************************************************)
\* C25: when the ballot set is a single ballot that ranks every candidate,
\* conduct_election returns that ballot's first entry as winner and a
\* ranking equal to the ballot.
C25_SingleBallotDecides ==
    (Conducted /\ candidates # <<>> /\ Len(rankings) = 1
               /\ Len(rankings[1]) = Len(candidates)) =>
        /\ result.status = "returned"
        /\ result.winner = rankings[1][1]
        /\ result.ranking = rankings[1]

(***************************************************************************)
(* The former interface (LegacySpec).                                      *)
(***************************************************************************)
SomeBallotBroken == \E r \in DOMAIN rankings : BreaksARule(rankings[r])

NothingFound == result.winner = None /\ DOMAIN result.matrix = {}

Election == conduct_election(rankings, candidates, "margin")

\* C26 as stated: condorcet_winner returns (none, empty matrix) exactly when
\* the ballots fail validation, and otherwise the winner and the pairwise
\* matrix of conduct_election with the margin strategy; the validation error
\* never escapes.
C26_LegacyNoneIffInvalid ==
    Conducted =>
        /\ result.status = "legacy"
        /\ NothingFound <=> SomeBallotBroken
        /\ ~SomeBallotBroken =>
               /\ result.winner = Election.winner
               /\ result.matrix = Election.pairwise_matrix

\* C26 amended: condorcet_winner returns (none, empty matrix) whenever the
\* ballots fail validation, and otherwise the winner and the pairwise matrix
\* of conduct_election with the margin strategy, which are (none, empty
\* matrix) as well when the candidate list is empty and only then; the
\* validation error never escapes.
C26_LegacyAgrees ==
    Conducted =>
        /\ result.status = "legacy"
        /\ SomeBallotBroken => NothingFound
        /\ ~SomeBallotBroken =>
               /\ result.winner = Election.winner
               /\ result.matrix = Election.pairwise_matrix
               /\ NothingFound <=> candidates = <<>>

\* the second ballot is broken and (none, empty matrix) comes back
C26_Witness ==
    /\ result.status = "legacy"
    /\ Len(rankings) = 2
    /\ ~BreaksARule(rankings[1]) /\ BreaksARule(rankings[2])
    /\ Len(candidates) = 2
    /\ NothingFound

\* valid ballots: the winner of the election comes back with its matrix
C26_WitnessValid ==
    /\ result.status = "legacy"
    /\ ~SomeBallotBroken
    /\ result.winner \in CandidateSet
    /\ \E A \in CandidateSet : \E B \in CandidateSet \ {A} : result.matrix[A][B] = 2

(***************************************************************************)
(* Shape of the composed ranking (Spec).                                   *)
(***************************************************************************)
\* A strictly beats B on the ballots
BeatsOnBallots(A, B) ==
    Cardinality(BallotsPreferring(A, B)) > Cardinality(BallotsPreferring(B, A))

\* the declared candidates of S in the order of the candidate list
ListedAmong(S) == SelectSeq(candidates, LAMBDA c : c \in S)

\* how the configured strategy orders the candidates of S taken alone
StrategyOrder(S) ==
    LET subset == ListedAmong(S)
        matrix == compute_pairwise_matrix(rankings, subset)
    IN tie_break(rankings, subset, tie_breaking_method, matrix,
                 compute_margin_matrix(matrix, subset)).ranking

\* the ranking is k peeled winners followed by one tie-broken block
PeeledThenBlock(ranking, k) ==
    LET block == SubSeq(ranking, k + 1, Len(ranking))
    IN /\ \A i \in 1..k : \A j \in (i + 1)..Len(ranking) :
              BeatsOnBallots(ranking[i], ranking[j])
       /\ block # <<>> =>
              /\ ~\E C \in Range(block) : WinsAmong(Range(block), C)
              /\ block = StrategyOrder(Range(block))

\* C27: every ranking returned by compute_full_ranking is a (possibly empty)
\* prefix of peeled winners followed by at most one tie-broken block: each
\* prefix element strictly pairwise-beats every element after it, the block
\* is a candidate subset without Condorcet winner, and the block is ordered
\* exactly as the configured strategy orders that subset alone.
C27_PeeledPrefixThenBlock ==
    Returned =>
        \E k \in 0..Len(result.ranking) : PeeledThenBlock(result.ranking, k)

(***************************************************************************)
(* Re-tabulation over a subset (RetabulateSpec).                           *)
(***************************************************************************)
\* C28: for every ballot set and every subset S of the declared candidates,
\* the pairwise matrix tabulated over S equals the full-set pairwise matrix
\* restricted to the rows and columns of S.
C28_RetabulationIsRestriction ==
    result.status = "retabulated" =>
        LET S == Range(result.remaining)
        IN /\ DOMAIN result.matrix = S
           /\ \A A \in S :
                  /\ DOMAIN result.matrix[A] = S \ {A}
                  /\ \A B \in S \ {A} : result.matrix[A][B] = result.full[A][B]

\* two of three candidates remain, and a ballot ranks the third between them
C28_Witness ==
    /\ result.status = "retabulated"
    /\ Len(candidates) = 3
    /\ Len(result.remaining) = 2
    /\ \E r \in DOMAIN rankings :
           /\ Len(rankings[r]) = 3
           /\ rankings[r][2] \notin Range(result.remaining)
    /\ \E A \in Range(result.remaining) : \E B \in Range(result.remaining) \ {A} :
           result.matrix[A][B] > 0

(***************************************************************************)
(* Termination of the Smith set loop (SmithSpec).                          *)
(***************************************************************************)
InSmithLoop == result.status = "smith_loop"

\* the working set only shrinks, and a pass that is not the last removes
\* at least one candidate
SmithPassShrinks ==
    (InSmithLoop /\ result'.status = "smith_loop") =>
        /\ result'.current_set \subseteq result.current_set
        /\ ~result'.done => result'.current_set # result.current_set

SmithSetNeverEmpties ==
    (InSmithLoop /\ candidates # <<>>) => result.current_set # {}

\* C29 as stated: the removal loop terminates after at most |candidates|
\* passes, the working set only shrinks, every pass but the last removes at
\* least one candidate, and the set never becomes empty when the candidate
\* list is not empty.
C29_AtMostLenPasses ==
    /\ [](InSmithLoop => result.passes <= Len(candidates))
    /\ [](SmithSetNeverEmpties)
    /\ [][SmithPassShrinks]_vars
    /\ <>(InSmithLoop /\ result.done)

\* C29 amended: the same with a bound of |candidates| passes for a non-empty
\* candidate list and of one pass for the empty list.
C29_SmithLoopTerminates ==
    /\ [](InSmithLoop =>
              result.passes <= (IF candidates = <<>> THEN 1 ELSE Len(candidates)))
    /\ [](SmithSetNeverEmpties)
    /\ [][SmithPassShrinks]_vars
    /\ <>(InSmithLoop /\ result.done)

\* four candidates, one removed in each of three passes and a fourth pass
\* that finds nothing to remove
C29_Witness ==
    /\ InSmithLoop
    /\ result.done
    /\ Len(candidates) = 4
    /\ result.passes = 4
    /\ Cardinality(result.current_set) = 1

(***************************************************************************)
(* Permutation and stability of the strategies (TieBreakSpec).             *)
(***************************************************************************)
\* the score the configured strategy sorts by
StrategyScore(c) ==
    IF tie_breaking_method = "margin" THEN WorstLoss(result.matrix, c)
    ELSE IF tie_breaking_method = "copeland" THEN CopelandScore(result.matrix, c)
    ELSE BordaScore(c)

PlaceIn(list, c) == CHOOSE k \in DOMAIN list : list[k] = c

\* C30: each of the three strategies returns a permutation of exactly the
\* candidate subset it was given, and any two candidates with equal score
\* keep the relative order they had in that subset.
C30_PermutationAndStable ==
    result.status = "resolved" =>
        /\ IsPermutation(result.ranking, candidates)
        /\ \A i, j \in DOMAIN result.ranking :
               (i < j /\ StrategyScore(result.ranking[i])
                             = StrategyScore(result.ranking[j]))
                   => PlaceIn(candidates, result.ranking[i])
                          < PlaceIn(candidates, result.ranking[j])

\* two candidates of equal score stay in the order given, behind a third
\* that was listed after them
C30_Witness ==
    /\ result.status = "resolved"
    /\ Len(candidates) = 3
    /\ rankings # <<>>
    /\ result.ranking = <<candidates[3], candidates[1], candidates[2]>>
    /\ StrategyScore(candidates[1]) = StrategyScore(candidates[2])
    /\ StrategyScore(candidates[3]) # StrategyScore(candidates[1])

====
